---------------------------- MODULE Spec2Model ----------------------------
(***************************************************************************)
(* Model of the medical report simplifier (src/api/services.py and         *)
(* src/api/app.py): the oracle adapter LLMService.generate_json, the OCR   *)
(* confidence computation, the three oracle-backed stages                  *)
(* (normalize_tests, validate_extraction, generate_summary) and the two    *)
(* full pipelines process_text_report and process_image_report.            *)
(*                                                                         *)
(* JSON values are encoded as strings: a JSON string stands for itself, a  *)
(* JSON number is written with a leading '#', Python's None is the marker  *)
(* None and a key that is missing from a dict is the marker Absent.        *)
(***************************************************************************)
EXTENDS Integers, Sequences, FiniteSets, TLC

VARIABLES
    \* ---- a pipeline invocation (src/api/app.py)
    op,                 \* the handler that is running ("idle" before the request)
    pc,                 \* the stage the handler is about to run, or "done"
    raw_text,           \* raw_text of the handler
    ocr_result,         \* what the OCR call of process_image_report returned or raised
    normalized_result,  \* what normalize_tests returned or raised
    validation_result,  \* what validate_extraction returned
    summary_result,     \* what generate_summary returned or raised
    response,           \* the FinalResponse / ErrorResponse the handler returned
    llm_calls,          \* the generate_json calls in order: the stage and the outcome
    validation_args,    \* the arguments of every validate_extraction invocation
    summary_args,       \* the argument of every generate_summary invocation
    \* ---- one generate_json call on a raw completion (src/api/services.py)
    http,               \* what requests.post will produce: the Ollama API's answer
    shape,              \* how the completion text was put together
    requests,           \* number of requests.post calls made
    json_str,           \* json_str of generate_json, the text it parses
    gj_result,          \* what generate_json returned or raised
    stage_result,       \* the calling stage and what it returned or raised
    \* ---- one OCR extraction (src/api/services.py)
    file,               \* the uploaded document
    ocr_op,             \* the OCRService method that was called
    ocr_out,            \* what extract_from_image / extract_from_pdf produced
    \* ---- one normalize_tests call (src/api/services.py)
    norm_reply,         \* what its generate_json call produced
    norm_out,           \* what normalize_tests returned or raised
    \* ---- the process (src/api/app.py)
    services,           \* the fields of the four service instances
    inv                 \* the local variables of each concurrent pipeline invocation

vars == <<op, pc, raw_text, ocr_result, normalized_result, validation_result,
          summary_result, response, llm_calls, validation_args, summary_args,
          http, shape, requests, json_str, gj_result, stage_result,
          file, ocr_op, ocr_out, norm_reply, norm_out, services, inv>>

pipelineVars == <<op, pc, raw_text, ocr_result, normalized_result, validation_result,
                  summary_result, response, llm_calls, validation_args, summary_args>>
jsonVars == <<http, shape, requests, json_str, gj_result, stage_result>>
ocrVars == <<file, ocr_op, ocr_out>>
normVars == <<norm_reply, norm_out>>
concVars == <<services, inv>>

-----------------------------------------------------------------------------
(* Bounds of the model *)

\* longest list of candidate records in an oracle response of a pipeline
MaxTests == 2
\* longest list of candidate records given to normalize_tests alone
MaxCandidates == 2
\* longest raw completion text, in characters
MaxLen == 4
\* longest prose before and after the JSON object of a completion
MaxProse == 2
\* most pages of a document
MaxPages == 2
\* most pipeline invocations that run at the same time
MaxInvocations == 2

-----------------------------------------------------------------------------
(* Settings, and the service instances built from them when the process     *)
(* starts.  Thresholds are in hundredths, as confidences are.               *)

OCR_CONFIDENCE_THRESHOLD == 60
VALIDATION_CONFIDENCE_THRESHOLD == 70

\* the fields LLMService.__init__ sets
LLMService ==
    [model_name |-> "llama3.2:latest", max_tokens |-> 2048, temperature |-> "#0.1",
     ollama_url |-> "http://localhost:11434",
     api_url |-> "http://localhost:11434/api/generate"]

\* ocr_service, normalizer_service, validator_service and summarizer_service
ServiceInstances ==
    [ocr_service |-> [confidence_threshold |-> OCR_CONFIDENCE_THRESHOLD],
     normalizer_service |-> [llm |-> LLMService],
     validator_service |-> [llm |-> LLMService,
                            confidence_threshold |-> VALIDATION_CONFIDENCE_THRESHOLD],
     summarizer_service |-> [llm |-> LLMService]]

-----------------------------------------------------------------------------
(* JSON values *)

None == "<None>"
Absent == "<absent>"

\* the JSON numbers the model draws from
Numbers == {"#0", "#8.5", "#12.0", "#17.0", "#0.0", "#0.8", "#0.9", "#0.5"}
IsNum(v) == v \in Numbers
IsStr(v) == v \notin Numbers \cup {None, Absent}

\* Python truthiness of a scalar: None, "", 0 and 0.0 are falsy
Truthy(v) == v \notin {None, Absent, "", "#0", "#0.0"}

\* dict.get(key) of a scalar field: None when the key is missing
Get(d, key) == IF d[key] = Absent THEN None ELSE d[key]

\* key in dict, for a dict returned by generate_json
HasKey(d, key) ==
    IF key = "tests" THEN d.tests_is # Absent
    ELSE IF key = "explanations" THEN d.explanations_is # Absent
    ELSE d[key] # Absent

\* the JSON object {} ; the list-valued keys carry Absent, None or "list" in *_is
EmptyObj ==
    [tests_is |-> Absent, tests |-> <<>>, normalization_confidence |-> Absent,
     status |-> Absent, reason |-> Absent, confidence |-> Absent,
     test_validations_is |-> Absent, test_validations |-> <<>>,
     summary |-> Absent, explanations_is |-> Absent, explanations |-> <<>>]

\* the lists of at most n elements of S
SeqUpTo(S, n) == UNION {[1..k -> S] : k \in 0..n}

-----------------------------------------------------------------------------
(* Candidate test records of an oracle response.  kind is "dict" for a JSON  *)
(* object and "str" for an entry that is no object; ref_range is Absent,    *)
(* None, "dict" (an object holding low and high) or "str" (no object);      *)
(* note is a key the Test model does not have.                              *)

Hemoglobin ==
    [kind |-> "dict", name |-> "Hemoglobin", value |-> "#8.5", unit |-> "g/dL",
     status |-> "low", ref_range |-> "dict", low |-> "#12.0", high |-> "#17.0",
     note |-> Absent]

\* a complete record whose value and lower bound are zero
Basophils ==
    [kind |-> "dict", name |-> "Basophils", value |-> "#0", unit |-> "%",
     status |-> "normal", ref_range |-> "dict", low |-> "#0.0", high |-> "#0.5",
     note |-> Absent]

\* a record whose value is a string that is no number
Textual == [Hemoglobin EXCEPT !.value = "positive"]

\* a record whose value is a string that spells a number
Quoted == [Hemoglobin EXCEPT !.value = "8.5"]

\* a record with a key of its own
Annotated == [Hemoglobin EXCEPT !.note = "fasting"]

\* an entry of the tests list that is no JSON object
NotADict == [Hemoglobin EXCEPT !.kind = "str"]

\* Hemoglobin with one field missing, null or empty
Defective ==
    {[Hemoglobin EXCEPT ![f] = v] : f \in {"name", "unit", "status"}, v \in {Absent, None, ""}}
    \cup {[Hemoglobin EXCEPT !.value = v] : v \in {Absent, None}}
    \cup {[Hemoglobin EXCEPT !.ref_range = v, !.low = Absent, !.high = Absent] :
              v \in {Absent, None, "dict"}}
    \cup {[Hemoglobin EXCEPT ![f] = v] : f \in {"low", "high"}, v \in {Absent, None}}
    \cup {[Hemoglobin EXCEPT !.ref_range = "str", !.low = Absent, !.high = Absent]}

Complete == {Hemoglobin, Basophils, Textual, Quoted, Annotated}

\* the candidates normalize_tests is checked on
Candidates == Complete \cup Defective \cup {NotADict}

-----------------------------------------------------------------------------
(* Outcomes.  A call either returns or raises an Exception with a message.  *)

\* generate_json raised Exception(msg)
LLMRaise(msg) == [raised |-> TRUE, msg |-> msg, obj |-> EmptyObj]
\* generate_json returned the parsed object
LLMReturn(obj) == [raised |-> FALSE, msg |-> "", obj |-> obj]
\* generate_json has not been called
NoCall == [raised |-> FALSE, msg |-> "<no call>", obj |-> EmptyObj]

NoNormalization ==
    [state |-> "none", msg |-> "", tests |-> <<>>, normalization_confidence |-> Absent]
NoValidation ==
    [state |-> "none", status |-> Absent, reason |-> Absent, confidence |-> Absent,
     tests_is |-> Absent, tests |-> <<>>, used_llm |-> FALSE]
NoSummary ==
    [state |-> "none", msg |-> "", summary |-> Absent, explanations |-> <<>>,
     status |-> Absent, used_llm |-> FALSE]
NoResponse ==
    [state |-> "none", model |-> "", fields |-> {}, status |-> Absent, reason |-> Absent,
     tests |-> <<>>, summary |-> Absent, explanations |-> <<>>]

-----------------------------------------------------------------------------
(* NormalizerService.normalize_tests *)

\* the condition with name, unit and status compared to None, as value is
CheckTest_not_none(test) ==
    IF test.kind # "dict" THEN "raise"
    ELSE IF ~(Get(test, "name") # None
              /\ Get(test, "value") # None
              /\ Get(test, "unit") # None
              /\ Get(test, "status") # None) THEN "skip"
    ELSE IF test.ref_range \in {Absent, None} THEN "skip"
    ELSE IF test.ref_range = "str" THEN "raise"
    ELSE IF test.low = Absent /\ test.high = Absent THEN "skip"
    ELSE IF Get(test, "low") # None /\ Get(test, "high") # None THEN "keep"
    ELSE "skip"

\* the condition of the completeness filter on one entry of the tests list:
\* "keep", "skip", or "raise" when an entry (or its ref_range) has no .get
CheckTest(test) ==
    IF test.kind # "dict" THEN "raise"
    ELSE IF ~(Truthy(Get(test, "name"))
              /\ Get(test, "value") # None
              /\ Truthy(Get(test, "unit"))
              /\ Truthy(Get(test, "status"))) THEN "skip"
    ELSE IF test.ref_range \in {Absent, None} THEN "skip"
    ELSE IF test.ref_range = "str" THEN "raise"
    ELSE IF test.low = Absent /\ test.high = Absent THEN "skip"   \* {} is falsy
    ELSE IF Get(test, "low") # None /\ Get(test, "high") # None THEN "keep"
    ELSE "skip"

\* the loop over result["tests"] that builds cleaned_tests
RECURSIVE FilterLoop(_, _, _)
FilterLoop(tests, i, cleaned_tests) ==
    IF i > Len(tests) THEN [raised |-> FALSE, tests |-> cleaned_tests]
    ELSE LET c == CheckTest(tests[i])
         IN IF c = "raise" THEN [raised |-> TRUE, tests |-> <<>>]
            ELSE FilterLoop(tests, i + 1,
                            IF c = "keep" THEN Append(cleaned_tests, tests[i])
                            ELSE cleaned_tests)

NormalizationRaise(msg) ==
    [state |-> "raised", msg |-> "Normalization failed: " \o msg, tests |-> <<>>,
     normalization_confidence |-> Absent]

\* normalize_tests taking an answer without 'tests' for one that lists none
normalize_tests_lenient(text, gj) ==
    IF gj.raised THEN NormalizationRaise(gj.msg)
    ELSE LET nc == IF HasKey(gj.obj, "normalization_confidence")
                   THEN gj.obj.normalization_confidence ELSE "#0.8"
             loop == FilterLoop(gj.obj.tests, 1, <<>>)
         IN IF gj.obj.tests_is \in {Absent, None} \/ gj.obj.tests = <<>>
            THEN [state |-> "returned", msg |-> "", tests |-> <<>>,
                  normalization_confidence |-> nc]
            ELSE IF loop.raised
            THEN NormalizationRaise("'str' object has no attribute 'get'")
            ELSE [state |-> "returned", msg |-> "", tests |-> loop.tests,
                  normalization_confidence |-> nc]

\* normalize_tests(raw_text), gj being what its generate_json call produced
normalize_tests(text, gj) ==
    IF gj.raised THEN NormalizationRaise(gj.msg)
    ELSE IF ~HasKey(gj.obj, "tests")
    THEN NormalizationRaise("LLM response missing 'tests' field")
    ELSE LET nc == IF HasKey(gj.obj, "normalization_confidence")
                   THEN gj.obj.normalization_confidence ELSE "#0.8"
             loop == FilterLoop(gj.obj.tests, 1, <<>>)
         IN IF gj.obj.tests_is = None \/ gj.obj.tests = <<>>
            THEN [state |-> "returned", msg |-> "", tests |-> <<>>,
                  normalization_confidence |-> nc]
            ELSE IF loop.raised
            THEN NormalizationRaise("'str' object has no attribute 'get'")
            ELSE [state |-> "returned", msg |-> "", tests |-> loop.tests,
                  normalization_confidence |-> nc]

-----------------------------------------------------------------------------
(* ValidatorService.validate_extraction *)

\* the except clause: a rejection that carries the error
ValidationError(msg) ==
    [state |-> "returned", status |-> "unprocessed",
     reason |-> "Validation error: " \o msg, confidence |-> "#0.0",
     tests_is |-> Absent, tests |-> <<>>, used_llm |-> TRUE]

\* validate_extraction without its guard on an empty list
validate_extraction_unguarded(original_text, extracted_tests, gj) ==
    IF gj.raised THEN ValidationError(gj.msg)
    ELSE IF ~HasKey(gj.obj, "status")
    THEN ValidationError("LLM validation response missing 'status' field")
    ELSE [state |-> "returned",
          status |-> gj.obj.status,
          reason |-> Get(gj.obj, "reason"),
          confidence |-> IF HasKey(gj.obj, "confidence") THEN gj.obj.confidence
                         ELSE "#0.0",
          tests_is |-> IF gj.obj.status = "ok" THEN "list" ELSE Absent,
          tests |-> IF gj.obj.status = "ok" THEN extracted_tests ELSE <<>>,
          used_llm |-> TRUE]

\* validate_extraction taking the tests of the oracle's answer when it has any
validate_extraction_rewriting(original_text, extracted_tests, gj) ==
    IF extracted_tests = <<>>
    THEN [state |-> "returned", status |-> "unprocessed",
          reason |-> "No tests extracted from input", confidence |-> "#0.0",
          tests_is |-> Absent, tests |-> <<>>, used_llm |-> FALSE]
    ELSE IF gj.raised THEN ValidationError(gj.msg)
    ELSE IF ~HasKey(gj.obj, "status")
    THEN ValidationError("LLM validation response missing 'status' field")
    ELSE [state |-> "returned",
          status |-> gj.obj.status,
          reason |-> Get(gj.obj, "reason"),
          confidence |-> IF HasKey(gj.obj, "confidence") THEN gj.obj.confidence
                         ELSE "#0.0",
          tests_is |-> IF gj.obj.status = "ok" THEN "list" ELSE Absent,
          tests |-> IF gj.obj.status # "ok" THEN <<>>
                    ELSE IF gj.obj.tests_is = "list" THEN gj.obj.tests
                    ELSE extracted_tests,
          used_llm |-> TRUE]

\* validate_extraction letting the error of its oracle call out
validate_extraction_raising(original_text, extracted_tests, gj) ==
    IF extracted_tests = <<>>
    THEN [state |-> "returned", status |-> "unprocessed",
          reason |-> "No tests extracted from input", confidence |-> "#0.0",
          tests_is |-> Absent, tests |-> <<>>, used_llm |-> FALSE]
    ELSE IF gj.raised
    THEN [state |-> "raised", status |-> Absent, reason |-> gj.msg,
          confidence |-> Absent, tests_is |-> Absent, tests |-> <<>>, used_llm |-> TRUE]
    ELSE IF ~HasKey(gj.obj, "status")
    THEN ValidationError("LLM validation response missing 'status' field")
    ELSE [state |-> "returned",
          status |-> gj.obj.status,
          reason |-> Get(gj.obj, "reason"),
          confidence |-> IF HasKey(gj.obj, "confidence") THEN gj.obj.confidence
                         ELSE "#0.0",
          tests_is |-> IF gj.obj.status = "ok" THEN "list" ELSE Absent,
          tests |-> IF gj.obj.status = "ok" THEN extracted_tests ELSE <<>>,
          used_llm |-> TRUE]

\* validate_extraction deciding by the scores: it accepts only an answer whose
\* confidence reaches 0.7 and whose records all reach 0.6
validate_extraction_scoring(original_text, extracted_tests, gj) ==
    IF extracted_tests = <<>>
    THEN [state |-> "returned", status |-> "unprocessed",
          reason |-> "No tests extracted from input", confidence |-> "#0.0",
          tests_is |-> Absent, tests |-> <<>>, used_llm |-> FALSE]
    ELSE IF gj.raised THEN ValidationError(gj.msg)
    ELSE IF ~HasKey(gj.obj, "status")
    THEN ValidationError("LLM validation response missing 'status' field")
    ELSE LET low == \/ gj.obj.confidence \in {"#0", "#0.0", "#0.5"}
                    \/ \E i \in 1..Len(gj.obj.test_validations) :
                           gj.obj.test_validations[i].confidence \in {"#0", "#0.0", "#0.5"}
             st == IF gj.obj.status = "ok" /\ low THEN "unprocessed" ELSE gj.obj.status
         IN [state |-> "returned",
             status |-> st,
             reason |-> Get(gj.obj, "reason"),
             confidence |-> IF HasKey(gj.obj, "confidence") THEN gj.obj.confidence
                            ELSE "#0.0",
             tests_is |-> IF st = "ok" THEN "list" ELSE Absent,
             tests |-> IF st = "ok" THEN extracted_tests ELSE <<>>,
             used_llm |-> TRUE]

\* validate_extraction(original_text, extracted_tests); gj is what its
\* generate_json call produced, and used_llm says whether the call was made
validate_extraction(original_text, extracted_tests, gj) ==
    IF extracted_tests = <<>>
    THEN [state |-> "returned", status |-> "unprocessed",
          reason |-> "No tests extracted from input", confidence |-> "#0.0",
          tests_is |-> Absent, tests |-> <<>>, used_llm |-> FALSE]
    ELSE IF gj.raised THEN ValidationError(gj.msg)
    ELSE IF ~HasKey(gj.obj, "status")
    THEN ValidationError("LLM validation response missing 'status' field")
    ELSE [state |-> "returned",
          status |-> gj.obj.status,
          reason |-> Get(gj.obj, "reason"),
          confidence |-> IF HasKey(gj.obj, "confidence") THEN gj.obj.confidence
                         ELSE "#0.0",
          tests_is |-> IF gj.obj.status = "ok" THEN "list" ELSE Absent,
          tests |-> IF gj.obj.status = "ok" THEN extracted_tests ELSE <<>>,
          used_llm |-> TRUE]

-----------------------------------------------------------------------------
(* SummarizerService.generate_summary *)

SummaryRaise(msg) ==
    [state |-> "raised", msg |-> "Summarization failed: " \o msg, summary |-> Absent,
     explanations |-> <<>>, status |-> Absent, used_llm |-> TRUE]

\* generate_summary without its short cut on an empty list
generate_summary_unguarded(normalized_tests, gj) ==
    IF gj.raised THEN SummaryRaise(gj.msg)
    ELSE IF ~HasKey(gj.obj, "summary") \/ ~HasKey(gj.obj, "explanations")
    THEN SummaryRaise("LLM response missing required fields")
    ELSE IF gj.obj.explanations_is = None
    THEN SummaryRaise("object of type 'NoneType' has no len()")
    ELSE [state |-> "returned", msg |-> "", summary |-> gj.obj.summary,
          explanations |-> gj.obj.explanations,
          status |-> IF HasKey(gj.obj, "status") THEN gj.obj.status ELSE "ok",
          used_llm |-> TRUE]

\* generate_summary(normalized_tests); gj is what its generate_json call produced
generate_summary(normalized_tests, gj) ==
    IF normalized_tests = <<>>
    THEN [state |-> "returned", msg |-> "", summary |-> "No test results to summarize.",
          explanations |-> <<>>, status |-> "ok", used_llm |-> FALSE]
    ELSE IF gj.raised THEN SummaryRaise(gj.msg)
    ELSE IF ~HasKey(gj.obj, "summary") \/ ~HasKey(gj.obj, "explanations")
    THEN SummaryRaise("LLM response missing required fields")
    ELSE IF gj.obj.explanations_is = None       \* len(None) in the log line
    THEN SummaryRaise("object of type 'NoneType' has no len()")
    ELSE [state |-> "returned", msg |-> "", summary |-> gj.obj.summary,
          explanations |-> gj.obj.explanations,
          status |-> IF HasKey(gj.obj, "status") THEN gj.obj.status ELSE "ok",
          used_llm |-> TRUE]


-----------------------------------------------------------------------------
(* OCRService.  A text is a non-empty sequence of lines (the empty string is *)
(* one blank line); a line has a body and may carry surrounding whitespace. *)
(* Confidences are in hundredths: 63 stands for 0.63.                       *)

Line(body) == [indent |-> FALSE, body |-> body]
Indented(body) == [indent |-> TRUE, body |-> body]
EmptyText == <<Line("")>>

\* line.strip()
StripLine(line) == [line EXCEPT !.indent = FALSE]

\* text.strip(): whitespace-only lines at both ends go, and so does the
\* whitespace around what is left
RECURSIVE DropBlankHead(_)
DropBlankHead(t) ==
    IF t = <<>> THEN <<>>
    ELSE IF Head(t).body = "" THEN DropBlankHead(Tail(t)) ELSE t
RECURSIVE DropBlankTail(_)
DropBlankTail(t) ==
    IF t = <<>> THEN <<>>
    ELSE IF t[Len(t)].body = "" THEN DropBlankTail(SubSeq(t, 1, Len(t) - 1)) ELSE t
Strip(t) ==
    LET core == DropBlankTail(DropBlankHead(t))
    IN IF core = <<>> THEN EmptyText
       ELSE IF Len(core) = 1 THEN <<StripLine(core[1])>>
       ELSE <<StripLine(core[1])>> \o SubSeq(core, 2, Len(core))

\* [line.strip() for line in text.split('\n') if line.strip()]
RECURSIVE LinesOf(_)
LinesOf(t) ==
    IF t = <<>> THEN <<>>
    ELSE IF Head(t).body = "" THEN LinesOf(Tail(t))
    ELSE <<StripLine(Head(t))>> \o LinesOf(Tail(t))

\* "\n".join(texts)
RECURSIVE Join(_)
Join(texts) ==
    IF texts = <<>> THEN EmptyText
    ELSE IF Len(texts) = 1 THEN texts[1]
    ELSE texts[1] \o Join(Tail(texts))

\* [int(conf) for conf in ocr_data['conf'] if int(conf) > 0]
RECURSIVE Positive(_)
Positive(conf) ==
    IF conf = <<>> THEN <<>>
    ELSE IF Head(conf) > 0 THEN <<Head(conf)>> \o Positive(Tail(conf))
    ELSE Positive(Tail(conf))

RECURSIVE Sum(_)
Sum(s) == IF s = <<>> THEN 0 ELSE Head(s) + Sum(Tail(s))

\* the k in 0..99 for which round((k + 0.5) / 100.0, 2) is (k + 1) / 100 in
\* IEEE-754 double arithmetic; for the others it is k / 100
HalfRoundsUp ==
    {0, 2, 3, 5, 6, 8, 9, 11, 13, 16, 19, 22, 25, 26, 27, 31, 32, 33, 37, 38, 39,
     40, 44, 45, 46, 50, 51, 52, 53, 54, 55, 63, 64, 65, 66, 67, 68, 75, 76, 77,
     78, 79, 80, 87, 88, 89, 90, 91, 92, 93}

\* round(sum(confidences) / len(confidences) / 100.0, 2) if confidences else 0.0
AvgConfidence(confidences) ==
    IF confidences = <<>> THEN 0
    ELSE LET n == Len(confidences)
             q == Sum(confidences) \div n
             r == Sum(confidences) % n
         IN IF 2 * r < n THEN q
            ELSE IF 2 * r > n THEN q + 1
            ELSE IF q \in HalfRoundsUp THEN q + 1 ELSE q

NoOcr == [state |-> "none", msg |-> "", raw_text |-> EmptyText, lines |-> <<>>,
          ocr_confidence |-> 0]
OcrRaise(msg) == [state |-> "raised", msg |-> msg, raw_text |-> EmptyText,
                  lines |-> <<>>, ocr_confidence |-> 0]

\* extract_from_image(image_bytes): f.format is what the bytes really hold
extract_from_image(f) ==
    IF f.format # "image" THEN OcrRaise("OCR failed: cannot identify image file")
    ELSE LET image == f.pages[1]
         IN [state |-> "returned", msg |-> "",
             raw_text |-> Strip(image.text),
             lines |-> LinesOf(image.text),
             ocr_confidence |-> AvgConfidence(Positive(image.conf))]

RECURSIVE PdfTexts(_)
PdfTexts(images) ==
    IF images = <<>> THEN <<>>
    ELSE <<Strip(Head(images).text)>> \o PdfTexts(Tail(images))
RECURSIVE PdfLines(_)
PdfLines(images) ==
    IF images = <<>> THEN <<>>
    ELSE LinesOf(Head(images).text) \o PdfLines(Tail(images))
\* all_confidences after the loop over the pages
RECURSIVE PdfConfidences(_)
PdfConfidences(images) ==
    IF images = <<>> THEN <<>>
    ELSE Positive(Head(images).conf) \o PdfConfidences(Tail(images))

\* the mean of each page that has a positive confidence
RECURSIVE PageMeans(_)
PageMeans(images) ==
    IF images = <<>> THEN <<>>
    ELSE IF Positive(Head(images).conf) = <<>> THEN PageMeans(Tail(images))
    ELSE <<AvgConfidence(Positive(Head(images).conf))>> \o PageMeans(Tail(images))

\* extract_from_pdf averaging the means of the pages
extract_from_pdf_per_page(f) ==
    IF f.format # "pdf" THEN OcrRaise("PDF OCR failed: unable to get page count")
    ELSE [state |-> "returned", msg |-> "",
          raw_text |-> Join(PdfTexts(f.pages)),
          lines |-> PdfLines(f.pages),
          ocr_confidence |-> AvgConfidence(PageMeans(f.pages))]

\* extract_from_pdf(pdf_bytes)
extract_from_pdf(f) ==
    IF f.format # "pdf" THEN OcrRaise("PDF OCR failed: unable to get page count")
    ELSE [state |-> "returned", msg |-> "",
          raw_text |-> Join(PdfTexts(f.pages)),
          lines |-> PdfLines(f.pages),
          ocr_confidence |-> AvgConfidence(PdfConfidences(f.pages))]

\* the pages the model draws from: their text and per-token confidences
PageSet ==
    {[text |-> <<Line("Hb: 8.5 g/dL")>>, conf |-> <<90, 90>>],
     [text |-> <<Line("WBC 0")>>, conf |-> <<30>>],
     [text |-> <<Indented(""), Indented("WBC 0"), Line("")>>, conf |-> <<-1, 10>>],
     [text |-> <<Line("Hb: 8.5 g/dL"), Line("WBC 0")>>, conf |-> <<90, 91>>],
     [text |-> <<Line("Hb")>>, conf |-> <<29>>],
     [text |-> EmptyText, conf |-> <<0, -1>>],
     [text |-> EmptyText, conf |-> <<>>]}

ContentTypes == {"image/png", "application/pdf", "text/plain"}

\* the uploads: an image holds one page, a PDF any number, anything else none
Files ==
    {[content_type |-> c, format |-> "image", pages |-> <<p>>] :
         c \in ContentTypes, p \in PageSet}
    \cup {[content_type |-> c, format |-> "pdf", pages |-> ps] :
         c \in ContentTypes, ps \in SeqUpTo(PageSet, MaxPages)}
    \cup {[content_type |-> c, format |-> "garbage", pages |-> <<>>] : c \in ContentTypes}

-----------------------------------------------------------------------------
(* The response models of src/api/app.py.  Building one validates its       *)
(* fields, and a field of the wrong type raises a ValidationError.          *)

\* a float field takes a number (an int widens to the float of the same value)
\* and a string that spells one
NumericStrings == {"8.5"}
IsFloat(v) == IsNum(v) \/ v \in NumericStrings
Float(v) == IF v \in NumericStrings THEN "#" \o v ELSE v

\* Test and ReferenceRange: the fields a dict must have to validate
ValidTest(t) ==
    /\ t.kind = "dict"
    /\ IsStr(t.name) /\ IsFloat(t.value) /\ IsStr(t.unit) /\ IsStr(t.status)
    /\ t.ref_range = "dict" /\ IsFloat(t.low) /\ IsFloat(t.high)

\* the Test built from a dict that validates: the float fields are converted
\* and a key the model does not declare is ignored
TestModel(t) ==
    [t EXCEPT !.value = Float(t.value), !.low = Float(t.low), !.high = Float(t.high),
              !.note = Absent]

\* Explanation
ValidExplanation(e) == IsStr(e.text) /\ IsStr(e.test_name)

\* an ErrorResponse that was built
Unprocessed(reason) ==
    [state |-> "returned", model |-> "ErrorResponse", fields |-> {"status", "reason"},
     status |-> "unprocessed", reason |-> reason,
     tests |-> <<>>, summary |-> Absent, explanations |-> <<>>]

\* a handler that lets the exception out to the caller
HandlerExcept_reraising(msg) ==
    [state |-> "raised", model |-> "HTTPException", fields |-> {"detail"},
     status |-> Absent, reason |-> msg,
     tests |-> <<>>, summary |-> Absent, explanations |-> <<>>]

\* the except clause of a pipeline handler
HandlerExcept(msg) == Unprocessed("Processing error: " \o msg)

\* return ErrorResponse(status="unprocessed", reason=reason) inside the try block
ReturnErrorResponse(reason) ==
    IF IsStr(reason) THEN Unprocessed(reason)
    ELSE HandlerExcept("1 validation error for ErrorResponse")

\* return FinalResponse(tests=..., summary=..., explanations=..., status="ok")
\* inside the try block
ReturnFinalResponse(tests, summary, explanations) ==
    IF /\ \A i \in 1..Len(tests) : ValidTest(tests[i])
       /\ IsStr(summary)
       /\ \A i \in 1..Len(explanations) : ValidExplanation(explanations[i])
    THEN [state |-> "returned", model |-> "FinalResponse",
          fields |-> {"tests", "summary", "explanations", "status"},
          status |-> "ok", reason |-> Absent,
          tests |-> [i \in 1..Len(tests) |-> TestModel(tests[i])],
          summary |-> summary, explanations |-> explanations]
    ELSE HandlerExcept("validation errors for FinalResponse")

-----------------------------------------------------------------------------
(* What the oracle may answer to the prompt of each stage *)

LLMErrors ==
    {LLMRaise("LLM generation failed: Ollama API failed with status 500"),
     LLMRaise("Invalid JSON from LLM: Expecting value")}

IncompleteHb == [Hemoglobin EXCEPT !.unit = None]
PipelineCandidates == {Hemoglobin, Basophils, Textual, IncompleteHb, NotADict}

NormObjs ==
    {[EmptyObj EXCEPT !.tests_is = "list", !.tests = ts] :
         ts \in SeqUpTo(PipelineCandidates, MaxTests)}
    \cup {EmptyObj,
          [EmptyObj EXCEPT !.tests_is = None],
          [EmptyObj EXCEPT !.tests_is = "list", !.tests = <<Hemoglobin>>,
                           !.normalization_confidence = "#0.9"],
          [EmptyObj EXCEPT !.tests_is = "list", !.tests = <<Quoted>>],
          [EmptyObj EXCEPT !.tests_is = "list", !.tests = <<Basophils, Annotated>>]}
NormOutcomes == LLMErrors \cup {LLMReturn(o) : o \in NormObjs}

\* an entry of test_validations in a validation answer
Scored(confidence) ==
    [test_name |-> "Hemoglobin", is_valid |-> confidence # "#0.0",
     confidence |-> confidence]

ValObjs ==
    {[EmptyObj EXCEPT !.status = st, !.reason = rs, !.confidence = cf] :
         st \in {Absent, "ok", "unprocessed", "failed"},
         rs \in {Absent, None, "", "Hemoglobin not found in text"},
         cf \in {Absent, "#0.9"}}
    \cup {[EmptyObj EXCEPT !.status = "ok", !.confidence = "#0.9",
                           !.tests_is = "list", !.tests = <<Basophils>>],
          [EmptyObj EXCEPT !.status = "ok", !.confidence = "#0.5",
                           !.test_validations_is = "list",
                           !.test_validations = <<Scored("#0.0")>>],
          [EmptyObj EXCEPT !.status = "unprocessed", !.confidence = "#0.9",
                           !.reason = "Hemoglobin not found in text",
                           !.test_validations_is = "list",
                           !.test_validations = <<Scored("#0.9")>>]}
ValOutcomes == LLMErrors \cup {LLMReturn(o) : o \in ValObjs}

Explained == [text |-> "Your hemoglobin is low.", test_name |-> "Hemoglobin"]
BadExplanation == [text |-> None, test_name |-> "Hemoglobin"]

SumObjs ==
    {[EmptyObj EXCEPT !.summary = sm, !.explanations_is = ek[1], !.explanations = ek[2]] :
         sm \in {Absent, None, "Low hemoglobin."},
         ek \in {<<Absent, <<>> >>, <<None, <<>> >>, <<"list", <<>> >>,
                 <<"list", <<Explained>> >>, <<"list", <<BadExplanation>> >>}}
    \cup {[EmptyObj EXCEPT !.summary = "Low hemoglobin.", !.explanations_is = "list",
                           !.explanations = <<Explained>>, !.status = "unprocessed"]}
SumOutcomes == LLMErrors \cup {LLMReturn(o) : o \in SumObjs}

Texts == {<<Line("Hb: 8.5 g/dL")>>, EmptyText}

\* the uploads the pipeline is run on: at most one page, or a good page
\* followed by a poor one
PipelineFiles ==
    {f \in Files : Len(f.pages) <= 1}
    \cup {[content_type |-> "application/pdf", format |-> "pdf",
           pages |-> <<[text |-> <<Line("Hb: 8.5 g/dL")>>, conf |-> <<90, 90>>],
                       [text |-> <<Indented(""), Indented("WBC 0"), Line("")>>,
                        conf |-> <<-1, 10>>]>>]}

-----------------------------------------------------------------------------
(* The pipelines: process_text_report and process_image_report *)

\* ocr_result["ocr_confidence"] < 0.3, in hundredths
OcrRejectCutoff == 30

\* the check of the OCR confidence against the threshold of the settings
TooLow_threshold(ocr_confidence) ==
    ocr_confidence < services.ocr_service.confidence_threshold

\* the check of the OCR confidence in process_image_report
TooLow(ocr_confidence) == ocr_confidence < OcrRejectCutoff

ConfText(c) == ToString(c) \o "/100"

\* one generate_json call: the stage that made it and what it produced
Call(stage, gj) == [stage |-> stage, reply |-> gj]

\* the stages that called the oracle, in call order
RECURSIVE Stages(_)
Stages(calls) ==
    IF calls = <<>> THEN <<>> ELSE <<Head(calls).stage>> \o Stages(Tail(calls))

Idle ==
    /\ op = "idle" /\ pc = "idle"

\* process_text_report up to its call of normalize_tests
StartText(text) ==
    /\ Idle
    /\ op' = "process_text_report"
    /\ raw_text' = text
    /\ pc' = "normalize"
    /\ UNCHANGED <<ocr_result, normalized_result, validation_result, summary_result,
                   response, llm_calls, validation_args, summary_args>>

\* process_image_report up to its call of normalize_tests
StartImage(f) ==
    /\ Idle
    /\ op' = "process_image_report"
    /\ LET o == IF f.content_type = "image/png" THEN extract_from_image(f)
                ELSE extract_from_pdf(f)
       IN IF f.content_type \notin {"image/png", "application/pdf"}
          THEN /\ response' = Unprocessed("Unsupported file type: " \o f.content_type)
               /\ pc' = "done"
               /\ UNCHANGED <<ocr_result, raw_text>>
          ELSE IF o.state = "raised"
          THEN /\ ocr_result' = o
               /\ response' = HandlerExcept(o.msg)
               /\ pc' = "done"
               /\ UNCHANGED raw_text
          ELSE /\ ocr_result' = o
               /\ raw_text' = o.raw_text
               /\ IF TooLow(o.ocr_confidence)
                  THEN /\ response' = Unprocessed("OCR confidence too low: "
                                                  \o ConfText(o.ocr_confidence))
                       /\ pc' = "done"
                  ELSE /\ pc' = "normalize"
                       /\ UNCHANGED response
    /\ UNCHANGED <<normalized_result, validation_result, summary_result,
                   llm_calls, validation_args, summary_args>>

\* Step 2 asking the oracle once more after a call that failed
NormalizeStep_retrying(gj) ==
    /\ pc = "normalize"
    /\ LET r == normalize_tests(raw_text, gj)
       IN /\ normalized_result' = r
          /\ llm_calls' = Append(llm_calls, Call("normalize", gj))
          /\ IF r.state = "raised" /\ llm_calls = <<>>
             THEN UNCHANGED <<pc, response>>
             ELSE IF r.state = "raised"
             THEN response' = HandlerExcept(r.msg) /\ pc' = "done"
             ELSE pc' = "validate" /\ UNCHANGED response
    /\ UNCHANGED <<op, raw_text, ocr_result, validation_result, summary_result,
                   validation_args, summary_args>>

\* Step 2 of a pipeline: normalize_tests(raw_text), answered by the oracle with gj
NormalizeStep(gj) ==
    /\ pc = "normalize"
    /\ LET r == normalize_tests(raw_text, gj)
       IN /\ normalized_result' = r
          /\ llm_calls' = Append(llm_calls, Call("normalize", gj))
          /\ IF r.state = "raised"
             THEN response' = HandlerExcept(r.msg) /\ pc' = "done"
             ELSE pc' = "validate" /\ UNCHANGED response
    /\ UNCHANGED <<op, raw_text, ocr_result, validation_result, summary_result,
                   validation_args, summary_args>>

\* Step 3 of a pipeline: validate_extraction and the check of its status
ValidateStep(gj) ==
    /\ pc = "validate"
    /\ LET v == validate_extraction(raw_text, normalized_result.tests, gj)
       IN /\ validation_result' = v
          /\ llm_calls' = IF v.used_llm THEN Append(llm_calls, Call("validate", gj))
                          ELSE llm_calls
          /\ validation_args' = Append(validation_args,
                                       [original_text |-> raw_text,
                                        extracted_tests |-> normalized_result.tests])
          /\ IF v.status = "unprocessed"
             THEN response' = ReturnErrorResponse(v.reason) /\ pc' = "done"
             ELSE pc' = "summarize" /\ UNCHANGED response
    /\ UNCHANGED <<op, raw_text, ocr_result, normalized_result, summary_result,
                   summary_args>>

\* validation_result.get("tests", normalized_result["tests"])
validated_tests ==
    IF validation_result.tests_is # Absent THEN validation_result.tests
    ELSE normalized_result.tests

\* Steps 4 and 5 of a pipeline: generate_summary and the FinalResponse
SummarizeStep(gj) ==
    /\ pc = "summarize"
    /\ LET s == generate_summary(validated_tests, gj)
       IN /\ summary_result' = s
          /\ summary_args' = Append(summary_args, validated_tests)
          /\ llm_calls' = IF s.used_llm THEN Append(llm_calls, Call("summarize", gj))
                          ELSE llm_calls
          /\ response' = IF s.state = "raised" THEN HandlerExcept(s.msg)
                         ELSE ReturnFinalResponse(validated_tests, s.summary,
                                                  s.explanations)
          /\ pc' = "done"
    /\ UNCHANGED <<op, raw_text, ocr_result, normalized_result, validation_result,
                   validation_args>>

\* a direct call of validator_service.validate_extraction
CallValidateExtraction(text, tests, gj) ==
    /\ Idle
    /\ op' = "validate_extraction"
    /\ validation_args' = Append(validation_args,
                                 [original_text |-> text, extracted_tests |-> tests])
    /\ LET v == validate_extraction(text, tests, gj)
       IN /\ validation_result' = v
          /\ llm_calls' = IF v.used_llm THEN Append(llm_calls, Call("validate", gj))
                          ELSE llm_calls
    /\ pc' = "done"
    /\ UNCHANGED <<raw_text, ocr_result, normalized_result, summary_result, response,
                   summary_args>>

\* a direct call of summarizer_service.generate_summary
CallGenerateSummary(tests, gj) ==
    /\ Idle
    /\ op' = "generate_summary"
    /\ LET s == generate_summary(tests, gj)
       IN /\ summary_result' = s
          /\ llm_calls' = IF s.used_llm THEN Append(llm_calls, Call("summarize", gj))
                          ELSE llm_calls
    /\ summary_args' = Append(summary_args, tests)
    /\ pc' = "done"
    /\ UNCHANGED <<raw_text, ocr_result, normalized_result, validation_result, response,
                   validation_args>>

\* the lists of records the services are called on directly
ServiceTests == SeqUpTo({Hemoglobin, Basophils}, MaxTests)

\* what a pipeline handler is called with: input_data.text or the uploaded file
NoFile == [content_type |-> "", format |-> "", pages |-> <<>>]
NoInput == [kind |-> "none", text |-> EmptyText, file |-> NoFile]
TextInput(text) == [kind |-> "text", text |-> text, file |-> NoFile]
FileInput(f) == [kind |-> "file", text |-> EmptyText, file |-> f]

\* the local variables of a pipeline handler that has not been called; input
\* is what it is called with and replies what the oracle answers its stages
IdleInvocation ==
    [op |-> "idle", pc |-> "idle", input |-> NoInput, replies |-> <<>>,
     raw_text |-> EmptyText, ocr_result |-> NoOcr,
     normalized_result |-> NoNormalization, validation_result |-> NoValidation,
     summary_result |-> NoSummary, response |-> NoResponse, llm_calls |-> <<>>]

Invocations == 1..MaxInvocations

InitProcess ==
    /\ services = ServiceInstances
    /\ inv = [i \in Invocations |-> IdleInvocation]

InitPipeline ==
    /\ op = "idle" /\ pc = "idle"
    /\ raw_text = EmptyText
    /\ ocr_result = NoOcr
    /\ normalized_result = NoNormalization
    /\ validation_result = NoValidation
    /\ summary_result = NoSummary
    /\ response = NoResponse
    /\ llm_calls = <<>>
    /\ validation_args = <<>>
    /\ summary_args = <<>>

NoHttp == [transport |-> "none", status_code |-> 0, text |-> <<>>]
NoShape == [prefix |-> <<>>, object |-> <<>>, suffix |-> <<>>]
NoStage == [stage |-> "none", out |-> NoNormalization]

InitJsonIdle ==
    /\ http = NoHttp /\ shape = NoShape /\ requests = 0 /\ json_str = <<>>
    /\ gj_result = NoCall /\ stage_result = NoStage
InitOcrIdle ==
    /\ file = NoFile
    /\ ocr_op = "none"
    /\ ocr_out = NoOcr
InitNormIdle ==
    /\ norm_reply = LLMReturn(EmptyObj) /\ norm_out = NoNormalization

Init == InitPipeline /\ InitJsonIdle /\ InitOcrIdle /\ InitNormIdle /\ InitProcess

Next ==
    \/ \E text \in Texts : StartText(text) /\ UNCHANGED <<jsonVars, ocrVars, normVars, concVars>>
    \/ \E f \in PipelineFiles : StartImage(f) /\ UNCHANGED <<jsonVars, ocrVars, normVars, concVars>>
    \/ \E gj \in NormOutcomes : NormalizeStep(gj) /\ UNCHANGED <<jsonVars, ocrVars, normVars, concVars>>
    \/ \E gj \in ValOutcomes : ValidateStep(gj) /\ UNCHANGED <<jsonVars, ocrVars, normVars, concVars>>
    \/ \E gj \in SumOutcomes : SummarizeStep(gj) /\ UNCHANGED <<jsonVars, ocrVars, normVars, concVars>>
    \/ \E text \in Texts, tests \in ServiceTests, gj \in ValOutcomes :
           CallValidateExtraction(text, tests, gj)
           /\ UNCHANGED <<jsonVars, ocrVars, normVars, concVars>>
    \/ \E tests \in ServiceTests, gj \in SumOutcomes :
           CallGenerateSummary(tests, gj) /\ UNCHANGED <<jsonVars, ocrVars, normVars, concVars>>

Spec == Init /\ [][Next]_vars

-----------------------------------------------------------------------------
(* LLMService.generate_json on the raw completion.  A completion is a        *)
(* sequence of characters: braces, commas, blanks, a prose character "p",   *)
(* and the characters T, S, M and k that stand for the JSON text of a       *)
(* member: "tests": [<Hemoglobin>], "status": "ok", "summary": "...",       *)
(* "explanations": [] and the key of a nested object, "k":                  *)

Chars == {"{", "}", ",", " ", "p", "k", "T", "S", "M"}

\* str.strip() of a completion
RECURSIVE LStrip(_)
LStrip(s) == IF s # <<>> /\ Head(s) = " " THEN LStrip(Tail(s)) ELSE s
RECURSIVE RStrip(_)
RStrip(s) ==
    IF s # <<>> /\ s[Len(s)] = " " THEN RStrip(SubSeq(s, 1, Len(s) - 1)) ELSE s
StripText(s) == RStrip(LStrip(s))

\* str.find(c) and str.rfind(c): the 0-based index, or -1
RECURSIVE FindFrom(_, _, _)
FindFrom(s, c, i) ==
    IF i > Len(s) THEN -1 ELSE IF s[i] = c THEN i - 1 ELSE FindFrom(s, c, i + 1)
find(s, c) == FindFrom(s, c, 1)
RECURSIVE RFindFrom(_, _, _)
RFindFrom(s, c, i) ==
    IF i < 1 THEN -1 ELSE IF s[i] = c THEN i - 1 ELSE RFindFrom(s, c, i - 1)
rfind(s, c) == RFindFrom(s, c, Len(s))

\* s[a:b] for indices that are not negative
Slice(s, a, b) == IF b <= a THEN <<>> ELSE SubSeq(s, a + 1, b)

\* json.loads of a text: whether it is one JSON object, and its keys.
\* An object is { } or { member , ... , member }, a member is T, S, M or
\* k followed by an object; blanks may stand between the tokens.
RECURSIVE SkipWs(_, _)
SkipWs(s, i) == IF i <= Len(s) /\ s[i] = " " THEN SkipWs(s, i + 1) ELSE i

ParseFail == [ok |-> FALSE, next |-> 0, keys |-> {}]

RECURSIVE ParseObject(_, _)
RECURSIVE ParseMembers(_, _, _)
ParseObject(s, i) ==
    IF i > Len(s) \/ s[i] # "{" THEN ParseFail
    ELSE LET j == SkipWs(s, i + 1)
         IN IF j <= Len(s) /\ s[j] = "}" THEN [ok |-> TRUE, next |-> j + 1, keys |-> {}]
            ELSE ParseMembers(s, j, {})
ParseMembers(s, i, keys) ==
    IF i > Len(s) THEN ParseFail
    ELSE LET nested == ParseObject(s, SkipWs(s, i + 1))
             after == IF s[i] \in {"T", "S", "M"} THEN i + 1
                      ELSE IF s[i] = "k" /\ nested.ok THEN nested.next
                      ELSE 0
             j == SkipWs(s, after)
         IN IF after = 0 \/ j > Len(s) THEN ParseFail
            ELSE IF s[j] = "}"
            THEN [ok |-> TRUE, next |-> j + 1, keys |-> keys \cup {s[i]}]
            ELSE IF s[j] = ","
            THEN ParseMembers(s, SkipWs(s, j + 1), keys \cup {s[i]})
            ELSE ParseFail

json_loads(s) ==
    LET r == ParseObject(s, SkipWs(s, 1))
    IN IF r.ok /\ SkipWs(s, r.next) > Len(s) THEN r ELSE ParseFail

\* the dict json.loads builds from the members of the object
ObjectOf(keys) ==
    [EmptyObj EXCEPT
        !.tests_is = IF "T" \in keys THEN "list" ELSE Absent,
        !.tests = IF "T" \in keys THEN <<Hemoglobin>> ELSE <<>>,
        !.status = IF "S" \in keys THEN "ok" ELSE Absent,
        !.summary = IF "M" \in keys THEN "Low hemoglobin." ELSE Absent,
        !.explanations_is = IF "M" \in keys THEN "list" ELSE Absent]

\* json_str taken up to the first '}' instead of the last
JsonStr_first_close(response_text) ==
    Slice(response_text, find(response_text, "{"), find(response_text, "}") + 1)

\* json_str = response_text[start_idx:end_idx + 1]
JsonStr(response_text) ==
    Slice(response_text, find(response_text, "{"), rfind(response_text, "}") + 1)

\* generate_json returning an empty object for a text that does not parse
generate_json_best_effort(h) ==
    IF h.transport # "ok" THEN LLMRaise("LLM generation failed: Read timed out")
    ELSE IF h.status_code # 200
    THEN LLMRaise("LLM generation failed: Ollama API failed with status "
                  \o ToString(h.status_code))
    ELSE LET response_text == StripText(h.text)
             parsed == json_loads(JsonStr(response_text))
         IN IF response_text = <<>>
            THEN LLMRaise("LLM generation failed: Empty response from Ollama")
            ELSE IF find(response_text, "{") = -1 \/ rfind(response_text, "}") = -1
            THEN LLMRaise("LLM generation failed: No JSON object found in LLM response")
            ELSE IF ~parsed.ok THEN LLMReturn(EmptyObj)
            ELSE LLMReturn(ObjectOf(parsed.keys))

\* generate_json(prompt), h being what requests.post produces
generate_json(h) ==
    IF h.transport # "ok" THEN LLMRaise("LLM generation failed: Read timed out")
    ELSE IF h.status_code # 200
    THEN LLMRaise("LLM generation failed: Ollama API failed with status "
                  \o ToString(h.status_code))
    ELSE LET response_text == StripText(h.text)
             parsed == json_loads(JsonStr(response_text))
         IN IF response_text = <<>>
            THEN LLMRaise("LLM generation failed: Empty response from Ollama")
            ELSE IF find(response_text, "{") = -1 \/ rfind(response_text, "}") = -1
            THEN LLMRaise("LLM generation failed: No JSON object found in LLM response")
            ELSE IF ~parsed.ok THEN LLMRaise("Invalid JSON from LLM: Expecting value")
            ELSE LLMReturn(ObjectOf(parsed.keys))

\* json_str when generate_json gets as far as cutting it out, else nothing
JsonStrOf(h) ==
    LET response_text == StripText(h.text)
    IN IF /\ h.transport = "ok" /\ h.status_code = 200
          /\ find(response_text, "{") # -1 /\ rfind(response_text, "}") # -1
       THEN JsonStr(response_text) ELSE <<>>

\* requests.post is called once in generate_json
PostsPerCall == 1

\* the JSON objects and the prose a completion is put together from
JsonObjects ==
    {<<"{", "}">>, <<"{", "T", "}">>, <<"{", " ", "S", " ", "}">>,
     <<"{", "M", ",", "T", "}">>, <<"{", "k", "{", "}", "}">>,
     <<"{", "k", "{", "S", "}", ",", "S", "}">>}
Prose == SeqUpTo({"p", " ", ","}, MaxProse)

Completion(text) == [transport |-> "ok", status_code |-> 200, text |-> text]

InitJson ==
    /\ InitPipeline /\ InitOcrIdle /\ InitNormIdle /\ InitProcess
    /\ requests = 0 /\ json_str = <<>>
    /\ gj_result = NoCall /\ stage_result = NoStage
    /\ \/ /\ shape = NoShape
          /\ http \in {Completion(t) : t \in SeqUpTo(Chars, MaxLen)}
                      \cup {[transport |-> "ok", status_code |-> 500, text |-> <<>>],
                            [transport |-> "timeout", status_code |-> 0, text |-> <<>>]}
       \/ \E pre \in Prose, suf \in Prose, J \in JsonObjects :
              /\ shape = [prefix |-> pre, object |-> J, suffix |-> suf]
              /\ http = Completion(pre \o J \o suf)

\* the generate_json call of a stage
Ask ==
    /\ requests' = requests + PostsPerCall
    /\ json_str' = JsonStrOf(http)
    /\ gj_result' = generate_json(http)

Unasked == UNCHANGED <<requests, json_str, gj_result>>

\* normalize_tests(text) when the oracle answers http
NormalizeOnCompletion(text) ==
    /\ stage_result.stage = "none"
    /\ Ask
    /\ stage_result' = [stage |-> "normalize_tests",
                        out |-> normalize_tests(text, generate_json(http))]
    /\ UNCHANGED <<http, shape, pipelineVars, ocrVars, normVars, concVars>>

\* validate_extraction(text, tests) when the oracle answers http
ValidateOnCompletion(text, tests) ==
    /\ stage_result.stage = "none"
    /\ LET v == validate_extraction(text, tests, generate_json(http))
       IN /\ stage_result' = [stage |-> "validate_extraction", out |-> v]
          /\ IF v.used_llm THEN Ask ELSE Unasked
    /\ UNCHANGED <<http, shape, pipelineVars, ocrVars, normVars, concVars>>

\* generate_summary(tests) when the oracle answers http
SummarizeOnCompletion(tests) ==
    /\ stage_result.stage = "none"
    /\ LET sm == generate_summary(tests, generate_json(http))
       IN /\ stage_result' = [stage |-> "generate_summary", out |-> sm]
          /\ IF sm.used_llm THEN Ask ELSE Unasked
    /\ UNCHANGED <<http, shape, pipelineVars, ocrVars, normVars, concVars>>

StageTests == {<<>>, <<Hemoglobin>>}

NextJson ==
    \/ \E text \in Texts : NormalizeOnCompletion(text)
    \/ \E text \in Texts, tests \in StageTests : ValidateOnCompletion(text, tests)
    \/ \E tests \in StageTests : SummarizeOnCompletion(tests)

SpecJson == InitJson /\ [][NextJson]_vars

-----------------------------------------------------------------------------
(* Properties of the pipelines and of the services they call *)

InPipeline == op \in {"process_text_report", "process_image_report"}

Range(f) == {f[i] : i \in DOMAIN f}

\* the stage called the oracle
Asked(stage) == stage \in Range(Stages(llm_calls))

\* C1: in both full pipelines, when validate_extraction returns a rejection
\* (status "unprocessed") with reason R, the pipeline has returned the
\* Unprocessed result whose reason is exactly R, and generate_summary was not
\* invoked.
C1_RejectionPropagates ==
    (InPipeline /\ validation_result.state = "returned"
                /\ validation_result.status = "unprocessed")
    => /\ pc = "done"
       /\ response.model = "ErrorResponse"
       /\ response.status = "unprocessed"
       /\ response.reason = validation_result.reason
       /\ summary_args = <<>>

\* C2: the validation outcome is Accepted (status "ok", with the tests) or
\* Rejected (status "unprocessed"), and a full pipeline invokes generate_summary
\* only with the records of an Accepted outcome.
C2_SummaryOnlyAfterAccepted ==
    (InPipeline /\ pc = "done" /\ validation_result.state = "returned")
    => /\ \/ validation_result.status = "ok" /\ validation_result.tests_is = "list"
          \/ validation_result.status = "unprocessed"
       /\ validation_result.status # "ok" => summary_args = <<>>
       /\ \A i \in 1..Len(summary_args) : summary_args[i] = validation_result.tests

\* C3: validate_extraction(original_text, []) returns the rejection with
\* confidence 0.0 and the reason "No tests extracted from input", and the
\* oracle is not asked.
C3_EmptyTestsRejected ==
    \A i \in 1..Len(validation_args) :
        validation_args[i].extracted_tests = <<>>
        => /\ validation_result.state = "returned"
           /\ validation_result.status = "unprocessed"
           /\ validation_result.confidence = "#0.0"
           /\ validation_result.reason = "No tests extracted from input"
           /\ validation_result.tests_is = Absent
           /\ ~Asked("validate")

\* validate_extraction was called with no tests on a text that is not empty
C3_Witness ==
    /\ op = "validate_extraction"
    /\ validation_args # <<>>
    /\ validation_args[1].extracted_tests = <<>>
    /\ validation_args[1].original_text # EmptyText
    /\ validation_result.state = "returned"

\* C4: generate_summary([]) returns the summary "No test results to
\* summarize." with no explanations, and the oracle is not asked.
C4_EmptySummaryFixed ==
    \A i \in 1..Len(summary_args) :
        summary_args[i] = <<>>
        => /\ summary_result.state = "returned"
           /\ summary_result.summary = "No test results to summarize."
           /\ summary_result.explanations = <<>>
           /\ summary_result.status = "ok"
           /\ ~Asked("summarize")

\* generate_summary was called with no tests
C4_Witness ==
    /\ op = "generate_summary"
    /\ summary_args = << <<>> >>
    /\ summary_result.state = "returned"

\* validate_extraction accepted: the tests of its outcome are the
\* extracted_tests it was given
AcceptedKeepsTests ==
    (validation_result.state = "returned" /\ validation_result.status = "ok")
    => /\ validation_result.tests_is = "list"
       /\ validation_result.tests = validation_args[1].extracted_tests

\* C9 as stated: when validate_extraction accepts, the tests of its outcome
\* are the extracted_tests it was given, whatever the oracle answered, and the
\* tests of a pipeline's FinalResponse are exactly the records normalize_tests
\* admitted.
C9_ValidationKeepsRecords ==
    /\ AcceptedKeepsTests
    /\ (InPipeline /\ response.model = "FinalResponse")
       => /\ normalized_result.state = "returned"
          /\ response.tests = normalized_result.tests

\* the record of a FinalResponse shows the admitted record: name, unit and
\* status are its own, value and the bounds are its numbers (the number a
\* string spells), and it has no key beyond those of Test
Shows(out, t) ==
    /\ out.name = t.name /\ out.unit = t.unit /\ out.status = t.status
    /\ IsNum(out.value) /\ out.value \in {t.value, "#" \o t.value}
    /\ IsNum(out.low) /\ out.low \in {t.low, "#" \o t.low}
    /\ IsNum(out.high) /\ out.high \in {t.high, "#" \o t.high}
    /\ out.note = Absent

\* C9 as amended: when validate_extraction accepts, the tests of its outcome
\* are the extracted_tests it was given, whatever the oracle answered, and the
\* tests of a pipeline's FinalResponse are the records normalize_tests
\* admitted, one for one and in their order, each as the Test model renders it.
C9_ValidationKeepsAdmitted ==
    /\ AcceptedKeepsTests
    /\ (InPipeline /\ response.model = "FinalResponse")
       => /\ normalized_result.state = "returned"
          /\ Len(response.tests) = Len(normalized_result.tests)
          /\ \A i \in 1..Len(response.tests) :
                 Shows(response.tests[i], normalized_result.tests[i])

\* a pipeline returned a FinalResponse although the oracle's validation answer
\* carried other tests
C9_Witness ==
    /\ InPipeline
    /\ response.model = "FinalResponse"
    /\ \E i \in 1..Len(llm_calls) :
           /\ llm_calls[i].stage = "validate"
           /\ llm_calls[i].reply.obj.tests_is = "list"
           /\ llm_calls[i].reply.obj.tests # normalized_result.tests

\* C10: a pipeline that has returned has returned a FinalResponse with tests,
\* summary, explanations and status "ok", or an ErrorResponse with status
\* "unprocessed" and a reason that is a non-empty string and no summary.
C10_TwoShapes ==
    (InPipeline /\ pc = "done")
    => \/ /\ response.model = "FinalResponse"
          /\ response.fields = {"tests", "summary", "explanations", "status"}
          /\ response.status = "ok"
          /\ IsStr(response.summary)
       \/ /\ response.model = "ErrorResponse"
          /\ response.fields = {"status", "reason"}
          /\ response.status = "unprocessed"
          /\ IsStr(response.reason)
          /\ response.reason # ""

\* the OCR call of the document pipeline raised
AcquisitionFailed == op = "process_image_report" /\ ocr_result.state = "raised"

\* C11: when extract_from_image / extract_from_pdf raises in the document
\* pipeline, the caller gets a processing failure and no Unprocessed result
\* (no ErrorResponse is returned), and the oracle is not asked.
C11_AcquisitionFailureIsAnError ==
    AcquisitionFailed
    => /\ pc = "done"
       /\ response.model # "ErrorResponse"
       /\ response.status # "unprocessed"
       /\ llm_calls = <<>>

\* the oracle's answer to a stage cannot be trusted: the call failed (the
\* completion was no JSON, among others) or the object lacks a key the stage
\* requires
Untrustworthy(call) ==
    \/ call.reply.raised
    \/ call.stage = "normalize" /\ ~HasKey(call.reply.obj, "tests")
    \/ call.stage = "validate" /\ ~HasKey(call.reply.obj, "status")
    \/ call.stage = "summarize" /\ (\/ ~HasKey(call.reply.obj, "summary")
                                    \/ ~HasKey(call.reply.obj, "explanations"))

\* C12: a pipeline whose oracle gave an answer that violates the stage's schema
\* or could not be parsed returns an Unprocessed result (an ErrorResponse with
\* a reason); nothing is raised to the caller.
C12_UntrustworthyIsUnprocessed ==
    (InPipeline /\ \E i \in 1..Len(llm_calls) : Untrustworthy(llm_calls[i]))
    => /\ pc = "done"
       /\ response.state = "returned"
       /\ response.model = "ErrorResponse"
       /\ response.status = "unprocessed"
       /\ IsStr(response.reason) /\ response.reason # ""

\* the summarization answer of a document pipeline had no summary, after the
\* two stages before it went through
C12_Witness ==
    /\ op = "process_image_report" /\ pc = "done"
    /\ Len(llm_calls) = 3
    /\ ~llm_calls[3].reply.raised
    /\ ~HasKey(llm_calls[3].reply.obj, "summary")
    /\ response.reason =
           "Processing error: Summarization failed: LLM response missing required fields"

\* the order in which a pipeline's stages ask the oracle
StageOrder == <<"normalize", "validate", "summarize">>

\* C14: in a pipeline invocation the oracle calls are made by extraction,
\* validation and summarization in that order, one call per stage at most and
\* so three at most; validation asks only after normalize_tests has returned
\* and summarization only after validate_extraction has returned; and when
\* extraction admits no record the one call of extraction is the only one,
\* and the result is Unprocessed.
C14_StagesInOrder ==
    InPipeline
    => /\ Len(llm_calls) <= 3
       /\ \A i \in 1..Len(llm_calls) : llm_calls[i].stage = StageOrder[i]
       /\ Len(llm_calls) >= 2 => normalized_result.state = "returned"
       /\ Len(llm_calls) >= 3 => validation_result.state = "returned"
       /\ Len(validation_args) <= 1 /\ Len(summary_args) <= 1
       /\ (normalized_result.state = "returned" /\ normalized_result.tests = <<>>)
          => /\ Len(llm_calls) = 1
             /\ pc = "done" => /\ response.model = "ErrorResponse"
                                /\ response.status = "unprocessed"

\* a text pipeline whose extraction admitted nothing of the two candidates the
\* oracle listed has ended after that one call
C14_Witness ==
    /\ op = "process_text_report" /\ pc = "done"
    /\ normalized_result.state = "returned" /\ normalized_result.tests = <<>>
    /\ Len(llm_calls) = 1
    /\ Len(llm_calls[1].reply.obj.tests) = 2
    /\ response.reason = "No tests extracted from input"

\* the validation stage asked the oracle and got this
ValidationReplies == {llm_calls[i].reply : i \in {j \in 1..Len(llm_calls) :
                                                     llm_calls[j].stage = "validate"}}

\* the error validate_extraction sees when the answer is of no use
ValidationFailure(reply) ==
    IF reply.raised THEN reply.msg
    ELSE "LLM validation response missing 'status' field"

\* C15: validate_extraction does not raise: when its oracle call fails or the
\* answer has no 'status', it returns the rejection with status "unprocessed",
\* the reason "Validation error: <the error>", confidence 0.0 and no tests.
C15_ValidationNeverRaises ==
    /\ validation_result.state \in {"none", "returned"}
    /\ \A reply \in ValidationReplies :
           (reply.raised \/ ~HasKey(reply.obj, "status"))
           => /\ validation_result.state = "returned"
              /\ validation_result.status = "unprocessed"
              /\ validation_result.reason = "Validation error: " \o ValidationFailure(reply)
              /\ validation_result.confidence = "#0.0"
              /\ validation_result.tests_is = Absent
              /\ validation_result.tests = <<>>

\* a direct call whose oracle call failed, and which returned
C15_Witness ==
    /\ op = "validate_extraction"
    /\ \E reply \in ValidationReplies : reply.raised
    /\ validation_result.state = "returned"
    /\ validation_result.status = "unprocessed"

\* C18: for a list of tests that is not empty and an answer that has 'status',
\* validate_extraction returns the oracle's status, reason (None when it gave
\* none) and confidence (0.0 when it gave none), whatever the scores in
\* test_validations are and whatever the configured threshold is.
C18_ForwardsVerdict ==
    \A reply \in ValidationReplies :
        (~reply.raised /\ HasKey(reply.obj, "status"))
        => /\ validation_result.state = "returned"
           /\ validation_result.status = reply.obj.status
           /\ validation_result.reason = Get(reply.obj, "reason")
           /\ validation_result.confidence =
                  (IF HasKey(reply.obj, "confidence") THEN reply.obj.confidence
                   ELSE "#0.0")

\* accepted, although the one record scored 0.0 and the answer's own
\* confidence 0.5 is below the threshold
C18_Witness ==
    /\ validation_result.state = "returned"
    /\ validation_result.status = "ok"
    /\ validation_result.confidence = "#0.5"
    /\ \E reply \in ValidationReplies :
           /\ reply.obj.test_validations_is = "list"
           /\ reply.obj.test_validations[1].confidence = "#0.0"

\* the document pipeline got a text and a confidence from OCR
Acquired == op = "process_image_report" /\ ocr_result.state = "returned"

\* the pipeline went on to extraction
Proceeded == pc = "normalize" \/ (llm_calls # <<>> /\ llm_calls[1].stage = "normalize")

\* C17: a document whose OCR confidence is below 0.3 ends Unprocessed with no
\* call of any stage; at 0.3 and above the pipeline goes on to extraction,
\* also when the confidence is below the configured OCR_CONFIDENCE_THRESHOLD,
\* which stays an unread field of ocr_service; the text pipeline checks no
\* OCR confidence and always goes on to extraction.
C17_OcrGate ==
    /\ (Acquired /\ ocr_result.ocr_confidence < 30)
       => /\ pc = "done"
          /\ response = Unprocessed("OCR confidence too low: "
                                     \o ConfText(ocr_result.ocr_confidence))
          /\ llm_calls = <<>> /\ validation_args = <<>> /\ summary_args = <<>>
    /\ (Acquired /\ ocr_result.ocr_confidence >= 30) => Proceeded
    /\ op = "process_text_report" => (ocr_result = NoOcr /\ Proceeded)
    /\ services.ocr_service.confidence_threshold = OCR_CONFIDENCE_THRESHOLD

\* a document read with confidence 0.30, below the configured 0.6, was
\* handed to extraction
C17_Witness ==
    /\ Acquired
    /\ ocr_result.ocr_confidence = 30
    /\ ocr_result.ocr_confidence < services.ocr_service.confidence_threshold
    /\ llm_calls # <<>>

-----------------------------------------------------------------------------
(* normalize_tests on its own, on the answers the oracle may give *)

NormCallObjs ==
    {[EmptyObj EXCEPT !.tests_is = "list", !.tests = ts, !.normalization_confidence = nc] :
         ts \in SeqUpTo(Candidates, MaxCandidates), nc \in {Absent, "#0.9"}}
    \cup {EmptyObj, [EmptyObj EXCEPT !.tests_is = None],
          [EmptyObj EXCEPT !.normalization_confidence = "#0.9"],
          [EmptyObj EXCEPT !.tests_is = "list", !.tests = <<Hemoglobin>>,
                           !.normalization_confidence = None]}
NormCallOutcomes == LLMErrors \cup {LLMReturn(o) : o \in NormCallObjs}

InitNorm ==
    /\ InitPipeline /\ InitJsonIdle /\ InitOcrIdle /\ InitProcess
    /\ norm_reply \in NormCallOutcomes
    /\ norm_out = NoNormalization

\* normalizer_service.normalize_tests(text)
CallNormalizeTests(text) ==
    /\ norm_out.state = "none"
    /\ norm_out' = normalize_tests(text, norm_reply)
    /\ UNCHANGED <<norm_reply, pipelineVars, jsonVars, ocrVars, concVars>>

NextNorm == \E text \in Texts : CallNormalizeTests(text)

SpecNorm == InitNorm /\ [][NextNorm]_vars

\* the field is there and is not null
Present(t, field) == t[field] \notin {Absent, None}

\* name, value, unit, status, ref_range.low and ref_range.high are all present
\* and non-null
AllPresent(t) ==
    /\ Present(t, "name") /\ Present(t, "value") /\ Present(t, "unit")
    /\ Present(t, "status")
    /\ t.ref_range = "dict" /\ Present(t, "low") /\ Present(t, "high")

\* ... and name, unit and status are not empty
Admissible(t) == AllPresent(t) /\ t.name # "" /\ t.unit # "" /\ t.status # ""

\* normalize_tests returned, on an answer that lists candidate records
NormReturned ==
    /\ norm_out.state = "returned"
    /\ ~norm_reply.raised
    /\ norm_reply.obj.tests_is = "list"

C16_TestsRequiredConfidenceDefaulted ==
    (norm_out.state # "none" /\ ~norm_reply.raised)
    => /\ norm_reply.obj.tests_is = Absent
          => /\ norm_out.state = "raised"
             /\ norm_out.msg = "Normalization failed: LLM response missing 'tests' field"
             /\ norm_out.tests = <<>>
             /\ norm_out.normalization_confidence = Absent
       /\ norm_out.state = "returned"
          => /\ norm_reply.obj.tests_is # Absent
             /\ norm_out.normalization_confidence =
                    (IF norm_reply.obj.normalization_confidence = Absent THEN "#0.8"
                     ELSE norm_reply.obj.normalization_confidence)

\* an answer with a record and no confidence came back with 0.8
C16_Witness ==
    /\ norm_out.state = "returned"
    /\ norm_out.tests # <<>>
    /\ norm_reply.obj.normalization_confidence = Absent
    /\ norm_out.normalization_confidence = "#0.8"

-----------------------------------------------------------------------------
(* OCRService on its own, on the uploads *)

InitOcr ==
    /\ InitPipeline /\ InitJsonIdle /\ InitNormIdle /\ InitProcess
    /\ file \in Files
    /\ ocr_op = "none"
    /\ ocr_out = NoOcr

\* ocr_service.extract_from_image(file_bytes)
CallExtractFromImage ==
    /\ ocr_op = "none"
    /\ ocr_op' = "extract_from_image"
    /\ ocr_out' = extract_from_image(file)
    /\ UNCHANGED <<file, pipelineVars, jsonVars, normVars, concVars>>

\* ocr_service.extract_from_pdf(file_bytes)
CallExtractFromPdf ==
    /\ ocr_op = "none"
    /\ ocr_op' = "extract_from_pdf"
    /\ ocr_out' = extract_from_pdf(file)
    /\ UNCHANGED <<file, pipelineVars, jsonVars, normVars, concVars>>

NextOcr == CallExtractFromImage \/ CallExtractFromPdf

SpecOcr == InitOcr /\ [][NextOcr]_vars

\* the tokens of a document with a positive confidence, as <<page, token>>
PositiveTokens(pages) ==
    {pt \in UNION {{<<i, j>> : j \in 1..Len(pages[i].conf)} : i \in 1..Len(pages)} :
         pages[pt[1]].conf[pt[2]] > 0}

RECURSIVE SumOver(_, _)
SumOver(pages, tokens) ==
    IF tokens = {} THEN 0
    ELSE LET pt == CHOOSE x \in tokens : TRUE
         IN pages[pt[1]].conf[pt[2]] + SumOver(pages, tokens \ {pt})

PdfReturned == ocr_op = "extract_from_pdf" /\ ocr_out.state = "returned"

\* C8 as stated: the confidence of a PDF is the mean of the positive token
\* confidences of all its pages, divided by 100 (0.0 when there is none).
C8_PooledMeanExact ==
    PdfReturned
    => LET tokens == PositiveTokens(file.pages)
       IN ocr_out.ocr_confidence * Cardinality(tokens) = SumOver(file.pages, tokens)

\* C8 as amended: the confidence of a PDF is that pooled mean divided by 100
\* and rounded to two decimals: it is within 0.005 of it (0.0 when no token is
\* positive).
C8_PooledMeanRounded ==
    PdfReturned
    => LET tokens == PositiveTokens(file.pages)
           n == Cardinality(tokens)
           d == ocr_out.ocr_confidence * n - SumOver(file.pages, tokens)
       IN /\ n = 0 => ocr_out.ocr_confidence = 0
          /\ 2 * d <= n /\ 2 * d >= -n

\* pages [90, 90] and [10]: 0.63 and not the 0.50 of the per-page means
C8_Witness ==
    /\ PdfReturned
    /\ Len(file.pages) = 2
    /\ file.pages[1].conf = <<90, 90>>
    /\ file.pages[2].conf = <<-1, 10>>
    /\ ocr_out.ocr_confidence = 63

-----------------------------------------------------------------------------
(* Properties of generate_json *)

\* a stage has called generate_json on the completion
Asked200 ==
    /\ stage_result.stage # "none"
    /\ requests > 0
    /\ http.transport = "ok" /\ http.status_code = 200

\* C6: for a completion prefix + J + suffix, J one JSON object and prefix and
\* suffix prose without braces, the text generate_json parses is exactly J and
\* its result is the one it gives for J alone.
C6_ProseIndependent ==
    (Asked200 /\ shape # NoShape)
    => /\ json_str = shape.object
       /\ ~gj_result.raised
       /\ gj_result = generate_json(Completion(shape.object))

\* a nested object between prose on both sides was cut out
C6_Witness ==
    /\ Asked200
    /\ shape.prefix # <<>> /\ shape.suffix # <<>>
    /\ shape.object = <<"{", "k", "{", "S", "}", ",", "S", "}">>
    /\ json_str = shape.object
    /\ gj_result.obj.status = "ok"

\* the positions of a character in a text
Positions(s, c) == {i \in 1..Len(s) : s[i] = c}
Min(S) == CHOOSE x \in S : \A y \in S : x <= y
Max(S) == CHOOSE x \in S : \A y \in S : x >= y

\* the text has no '{' or no '}', or what lies from its first '{' to its last
\* '}' is no JSON
Malformed(text) ==
    \/ Positions(text, "{") = {}
    \/ Positions(text, "}") = {}
    \/ Max(Positions(text, "}")) < Min(Positions(text, "{"))
    \/ ~json_loads(SubSeq(text, Min(Positions(text, "{")),
                          Max(Positions(text, "}")))).ok

\* the stage that asked did not succeed: normalize_tests and generate_summary
\* raise, validate_extraction returns the rejection that carries the error
StageFailed ==
    IF stage_result.stage = "validate_extraction"
    THEN /\ stage_result.out.status = "unprocessed"
         /\ stage_result.out.tests_is = Absent
         /\ stage_result.out.reason = "Validation error: " \o gj_result.msg
    ELSE stage_result.out.state = "raised"

\* C7: when the completion has no '{' / '}' pair, or the text from its first
\* '{' to its last '}' is no JSON, generate_json raises (it returns no
\* object), one request was made, and the stage that asked fails.
C7_MalformedIsFatal ==
    (Asked200 /\ Malformed(StripText(http.text)))
    => /\ gj_result.raised
       /\ gj_result.obj = EmptyObj
       /\ requests = 1
       /\ StageFailed

\* braces around something that is no JSON, asked for by the summarizer
C7_Witness ==
    /\ Asked200
    /\ stage_result.stage = "generate_summary"
    /\ Positions(http.text, "{") # {} /\ Positions(http.text, "}") # {}
    /\ Malformed(StripText(http.text))
    /\ gj_result.raised

-----------------------------------------------------------------------------
(* Pipeline invocations that run at the same time.  Each has the local      *)
(* variables of its handler; the service instances are shared.              *)

\* process_text_report / process_image_report up to the call of normalize_tests
Started(input) ==
    LET l == [IdleInvocation EXCEPT !.input = input]
        f == input.file
        o == IF f.content_type = "image/png" THEN extract_from_image(f)
             ELSE extract_from_pdf(f)
    IN IF input.kind = "text"
       THEN [l EXCEPT !.op = "process_text_report", !.raw_text = input.text,
                      !.pc = "normalize"]
       ELSE IF f.content_type \notin {"image/png", "application/pdf"}
       THEN [l EXCEPT !.op = "process_image_report", !.pc = "done",
                      !.response = Unprocessed("Unsupported file type: "
                                               \o f.content_type)]
       ELSE IF o.state = "raised"
       THEN [l EXCEPT !.op = "process_image_report", !.pc = "done",
                      !.ocr_result = o, !.response = HandlerExcept(o.msg)]
       ELSE IF TooLow(o.ocr_confidence)
       THEN [l EXCEPT !.op = "process_image_report", !.pc = "done",
                      !.ocr_result = o, !.raw_text = o.raw_text,
                      !.response = Unprocessed("OCR confidence too low: "
                                               \o ConfText(o.ocr_confidence))]
       ELSE [l EXCEPT !.op = "process_image_report", !.pc = "normalize",
                      !.ocr_result = o, !.raw_text = o.raw_text]

\* Step 2 on the locals l
Normalized(l, gj) ==
    LET r == normalize_tests(l.raw_text, gj)
    IN [l EXCEPT !.replies = Append(@, gj),
                 !.normalized_result = r,
                 !.llm_calls = Append(@, Call("normalize", gj)),
                 !.response = IF r.state = "raised" THEN HandlerExcept(r.msg) ELSE @,
                 !.pc = IF r.state = "raised" THEN "done" ELSE "validate"]

\* Step 3 on the locals l
Validated(l, gj) ==
    LET v == validate_extraction(l.raw_text, l.normalized_result.tests, gj)
    IN [l EXCEPT !.replies = Append(@, gj),
                 !.validation_result = v,
                 !.llm_calls = IF v.used_llm THEN Append(@, Call("validate", gj)) ELSE @,
                 !.response = IF v.status = "unprocessed"
                              THEN ReturnErrorResponse(v.reason) ELSE @,
                 !.pc = IF v.status = "unprocessed" THEN "done" ELSE "summarize"]

\* Steps 4 and 5 on the locals l
Summarized(l, gj) ==
    LET tests == IF l.validation_result.tests_is # Absent
                 THEN l.validation_result.tests ELSE l.normalized_result.tests
        sm == generate_summary(tests, gj)
    IN [l EXCEPT !.replies = Append(@, gj),
                 !.summary_result = sm,
                 !.llm_calls = IF sm.used_llm THEN Append(@, Call("summarize", gj)) ELSE @,
                 !.response = IF sm.state = "raised" THEN HandlerExcept(sm.msg)
                              ELSE ReturnFinalResponse(tests, sm.summary, sm.explanations),
                 !.pc = "done"]

\* the handler's variables kept in module-level variables: raw_text is one
\* variable for all invocations
Assign_global_raw_text(i, l) ==
    [j \in Invocations |->
        IF j = i THEN l ELSE [inv[j] EXCEPT !.raw_text = l.raw_text]]

\* a step of invocation i assigns the local variables of its own handler call
Assign(i, l) == [inv EXCEPT ![i] = l]

\* the inputs and the answers the concurrent invocations are run on
ConcInputs ==
    {TextInput(t) : t \in Texts}
    \cup {FileInput([content_type |-> "image/png", format |-> fm,
                     pages |-> <<[text |-> <<Line("WBC 0")>>, conf |-> <<30>>]>>]) :
              fm \in {"image", "pdf"}}
ConcNormOutcomes ==
    {LLMRaise("Invalid JSON from LLM: Expecting value"), LLMReturn(EmptyObj),
     LLMReturn([EmptyObj EXCEPT !.tests_is = "list", !.tests = <<Hemoglobin>>]),
     LLMReturn([EmptyObj EXCEPT !.tests_is = "list", !.tests = <<IncompleteHb>>])}
ConcValOutcomes ==
    {LLMRaise("Invalid JSON from LLM: Expecting value"),
     LLMReturn([EmptyObj EXCEPT !.status = "ok", !.confidence = "#0.9"]),
     LLMReturn([EmptyObj EXCEPT !.status = "unprocessed",
                                !.reason = "Hemoglobin not found in text"])}
ConcSumOutcomes ==
    {LLMReturn(EmptyObj),
     LLMReturn([EmptyObj EXCEPT !.summary = "Low hemoglobin.", !.explanations_is = "list",
                                !.explanations = <<Explained>>])}

\* a request arrives and its handler runs up to Step 2
Begin(i, input) ==
    /\ inv[i].op = "idle"
    /\ inv' = Assign(i, Started(input))
    /\ UNCHANGED <<services, pipelineVars, jsonVars, ocrVars, normVars>>

NormalizeOf(i, gj) ==
    /\ inv[i].pc = "normalize"
    /\ inv' = Assign(i, Normalized(inv[i], gj))
    /\ UNCHANGED <<services, pipelineVars, jsonVars, ocrVars, normVars>>

\* the oracle is asked only when there are tests to validate
ValidateOf(i, gj) ==
    /\ inv[i].pc = "validate"
    /\ gj = NoCall <=> inv[i].normalized_result.tests = <<>>
    /\ inv' = Assign(i, Validated(inv[i], gj))
    /\ UNCHANGED <<services, pipelineVars, jsonVars, ocrVars, normVars>>

SummarizeOf(i, gj) ==
    /\ inv[i].pc = "summarize"
    /\ inv' = Assign(i, Summarized(inv[i], gj))
    /\ UNCHANGED <<services, pipelineVars, jsonVars, ocrVars, normVars>>

NextConc ==
    \E i \in Invocations :
        \/ \E input \in ConcInputs : Begin(i, input)
        \/ \E gj \in ConcNormOutcomes : NormalizeOf(i, gj)
        \/ \E gj \in ConcValOutcomes \cup {NoCall} : ValidateOf(i, gj)
        \/ \E gj \in ConcSumOutcomes : SummarizeOf(i, gj)

SpecConc == Init /\ [][NextConc]_vars

\* the handler run alone on an input, its stages answered by replies in turn
RECURSIVE Alone(_, _)
Alone(input, replies) ==
    IF input.kind = "none" THEN IdleInvocation
    ELSE IF replies = <<>> THEN Started(input)
    ELSE LET l == Alone(input, SubSeq(replies, 1, Len(replies) - 1))
             gj == replies[Len(replies)]
         IN IF l.pc = "normalize" THEN Normalized(l, gj)
            ELSE IF l.pc = "validate" THEN Validated(l, gj)
            ELSE Summarized(l, gj)

\* C13: however the steps of the invocations interleave, every invocation is
\* where it would be had it run alone on its input with the answers to its
\* own calls, and the fields of the service instances are as built.
C13_InvocationsIndependent ==
    /\ services = ServiceInstances
    /\ \A i \in Invocations : inv[i] = Alone(inv[i].input, inv[i].replies)

\* the first invocation waits for its validation while the second, begun on
\* another input, has already returned its FinalResponse
C13_Witness ==
    /\ inv[1].pc = "validate"
    /\ inv[2].pc = "done"
    /\ inv[2].response.model = "FinalResponse"
    /\ inv[1].input # inv[2].input
    /\ inv[1].raw_text # inv[2].raw_text
=============================================================================
